---- MODULE Spec2Model ----
(***************************************************************************)
(* Model of the billing engine of src-tauri/src/main.rs: the SQLite store  *)
(* behind AppState.db, the api_call routes that read and write it, the      *)
(* bill transaction, the item number allocator, backup / restore, and the   *)
(* receipt formatter with the raw print transport.                          *)
(*                                                                          *)
(* Conventions.  An Option<T> is the empty set (None) or a singleton        *)
(* (Some).  Text that the code inspects character by character (names,      *)
(* bill numbers) is a sequence of one-character strings; text that is only  *)
(* compared as a whole (error messages, route names, setting keys) is a     *)
(* string.  The columns created_at / updated_at are left out: no route      *)
(* modelled here reads them.  The value of the bill_seq setting is kept as  *)
(* the integer its decimal text denotes.                                    *)
(***************************************************************************)
EXTENDS Integers, Sequences, FiniteSets, TLC

VARIABLES
    db,        \* AppState.db: "Some" (a connection is attached) or "None"
    dbfile,    \* content of the file at AppState.db_path
    wal,       \* content of the write-ahead log beside it (db_path-wal)
    backups,   \* the backup files: path -> [content, mtime]
    lock,      \* holder of the Mutex around AppState.db; 0 when free
    pc,        \* per caller: where its api_call is
    pending,   \* per caller: the request its api_call carries
    last,      \* the api_call that returned last: caller, request, result
    hist,      \* history: bill numbers returned and restores begun, in lock order
    snap,      \* history: per backup file, the store content when it was taken
    during,    \* history: per caller, whether its call began while a restore held the Mutex
    temp       \* the files meateat_{ms}.txt of the temporary directory: [ms, raw]

vars == <<db, dbfile, wal, backups, lock, pc, pending, last, hist, snap, during, temp>>

(***************************************************************************)
(* Bounds of the model.                                                     *)
(***************************************************************************)
MaxProducts == 2      \* product rows ever inserted (AUTOINCREMENT ids)
MaxHist == 3          \* successful bills plus restores over a run of concurrent callers
EngineHist == 2       \* the same over a run of the engine with one caller
MaxCatalog == 4       \* product rows ever inserted when the catalogue alone is exercised
MaxBackups == 1       \* distinct backup file names (timestamps)
NumCallers == 2       \* concurrent callers of api_call

(***************************************************************************)
(* Constants of the program.                                                *)
(***************************************************************************)
ItemNoMax == 9999
QtyMax == 1000
BpsScale == 10000
AllocTries == 3
BillNoWidth == 6
DefaultInterval == 1440

Callers == 1..NumCallers
BackupDir == "backups"               \* AppState.backup_dir
Dirs == {BackupDir}
BackupNames == {<<"meet-eat", n>> : n \in 1..MaxBackups}
BackupPaths == {<<d, n>> : d \in Dirs, n \in BackupNames}
JunkPath == <<"docs", <<"notes", 0>>>>   \* a regular file that is no SQLite database

None == {}
Some(x) == {x}
IsSome(o) == o # {}
Get(o) == CHOOSE x \in o : TRUE
OrElse(o, d) == IF o = {} THEN d ELSE Get(o)

SetMax(S) == CHOOSE m \in S : \A x \in S : x <= m
Max2(a, b) == IF a >= b THEN a ELSE b
Min2(a, b) == IF a <= b THEN a ELSE b

RECURSIVE SumSeq(_)
SumSeq(s) == IF s = <<>> THEN 0 ELSE Head(s) + SumSeq(Tail(s))

(***************************************************************************)
(* Text.                                                                    *)
(***************************************************************************)
IsSpace(ch) == ch = " "

RECURSIVE TrimStart(_)
TrimStart(s) == IF s # <<>> /\ IsSpace(Head(s)) THEN TrimStart(Tail(s)) ELSE s

RECURSIVE TrimEnd(_)
TrimEnd(s) ==
    IF s # <<>> /\ IsSpace(s[Len(s)]) THEN TrimEnd(SubSeq(s, 1, Len(s) - 1)) ELSE s

\* str::trim
Trim(s) == TrimEnd(TrimStart(s))

DigitChar(d) == <<"0", "1", "2", "3", "4", "5", "6", "7", "8", "9">>[d + 1]

\* i64::to_string of a non-negative value
RECURSIVE Decimal(_)
Decimal(n) == IF n < 10 THEN <<DigitChar(n)>> ELSE Append(Decimal(n \div 10), DigitChar(n % 10))

RECURSIVE Zeros(_)
Zeros(k) == IF k <= 0 THEN <<>> ELSE <<"0">> \o Zeros(k - 1)

\* the number without its zero padding: a wrong FormatBillNo, which C1 must tell apart
FormatBillNoDrop(seq) == <<"M", "N", "E", "-">> \o Decimal(seq)
\* format!("MNE-{:06}", seq): zero padding to a minimum width, never cutting
FormatBillNo(seq) ==
    <<"M", "N", "E", "-">> \o Zeros(BillNoWidth - Len(Decimal(seq))) \o Decimal(seq)

(***************************************************************************)
(* Results of api_call: Ok(json) or Err(text).  out carries the part of the *)
(* JSON value the callers of this model read.                               *)
(***************************************************************************)
Ok(out) == [ok |-> TRUE, err |-> "", out |-> out]
Err(e) == [ok |-> FALSE, err |-> e, out |-> <<>>]

ErrUnavailable == "Database not available"
ErrUniqueItemNo == "UNIQUE constraint failed: products.item_no"
ErrUniqueBillNo == "UNIQUE constraint failed: bills.bill_no"
ErrForeignKey == "FOREIGN KEY constraint failed"
ErrItemNoInUse == "Item No already in use"
ErrOverflow == "Item No overflow"
ErrAllocate == "Failed to allocate Item No"

\* What a handler has decided when it reaches the store: to go on with the
\* request as read (Passed), or to return an error without touching AppState
Passed(req) == [ok |-> TRUE, err |-> "", req |-> req]
Refused(req, e) == [ok |-> FALSE, err |-> e, req |-> req]

\* m.contains("unique") && m.contains("item_no") on the lower-cased message
IsUniqueItemNo(e) == e = ErrUniqueItemNo
\* m.contains("foreign key") || m.contains("constraint")
IsConstraint(e) == e \in {ErrForeignKey, ErrUniqueItemNo, ErrUniqueBillNo}

(***************************************************************************)
(* The store: the content of one SQLite file under SCHEMA.                  *)
(***************************************************************************)
Garbage == [kind |-> "garbage"]      \* bytes that are no SQLite database
NoWal == [kind |-> "none"]

\* a database file on which no schema statement has run yet
FreshStore ==
    [kind |-> "sqlite",
     settings |-> <<>>,
     categories |-> {},
     products |-> {},
     bills |-> {},
     bill_items |-> {},
     seq |-> [categories |-> 0, products |-> 0, bills |-> 0, bill_items |-> 0]]

\* SELECT value FROM settings WHERE key = ?1, or the fallback
GetSetting(store, key, fallback) ==
    IF key \in DOMAIN store.settings THEN store.settings[key] ELSE fallback

PutKey(settings, key, value) ==
    [k \in (DOMAIN settings) \cup {key} |-> IF k = key THEN value ELSE settings[k]]

\* INSERT ... ON CONFLICT(key) DO UPDATE SET value = excluded.value
SetSetting(store, key, value) ==
    [store EXCEPT !.settings = PutKey(@, key, value)]

\* INSERT OR REPLACE: a wrong seed, which C20 must tell apart
SeedSettingReset(store, key, value) == SetSetting(store, key, value)
\* INSERT OR IGNORE INTO settings(key, value)
SeedSetting(store, key, value) ==
    IF key \in DOMAIN store.settings THEN store ELSE SetSetting(store, key, value)

\* execute_batch(SCHEMA): every CREATE is IF NOT EXISTS, then the two seeds
ApplySchema(store) ==
    SeedSetting(SeedSetting(store, "bill_seq", 0), "discount_rate_bps", 0)

\* init_db(path) on a file of the given content: the connection's view, or an error
InitDb(content) ==
    IF content.kind = "sqlite"
        THEN [ok |-> TRUE, store |-> ApplySchema(content), err |-> ""]
        ELSE [ok |-> FALSE, store |-> content, err |-> "DB pragma init failed"]

\* main(): init_db on the application's data file, then the two set_setting calls
StartupStore ==
    SetSetting(SetSetting(InitDb(FreshStore).store, "backup_path", BackupDir),
               "backup_interval_minutes", DefaultInterval)

\* fn resolve_category_id: INSERT OR IGNORE by name, then SELECT id
ResolveCategory(store, name) ==
    IF name = "" THEN [store |-> store, id |-> None]
    ELSE IF \E c \in store.categories : c.name = name
        THEN [store |-> store,
              id |-> Some((CHOOSE c \in store.categories : c.name = name).id)]
        ELSE LET nid == store.seq.categories + 1 IN
             [store |-> [store EXCEPT
                            !.categories = @ \cup {[id |-> nid, name |-> name, is_active |-> 1]},
                            !.seq.categories = nid],
              id |-> Some(nid)]

\* INSERT INTO products(item_no, name, category_id, price_cents, is_available) VALUES(..., 1)
\* under idx_products_item_no (unique where not null) and the category foreign key
InsertProduct(store, item_no, name, cat_id, price) ==
    IF IsSome(item_no) /\ \E p \in store.products : p.item_no = item_no
        THEN [ok |-> FALSE, err |-> ErrUniqueItemNo, store |-> store]
    ELSE IF IsSome(cat_id) /\ ~\E c \in store.categories : c.id = Get(cat_id)
        THEN [ok |-> FALSE, err |-> ErrForeignKey, store |-> store]
    ELSE LET nid == store.seq.products + 1 IN
         [ok |-> TRUE, err |-> "",
          store |-> [store EXCEPT
                        !.products = @ \cup {[id |-> nid, item_no |-> item_no, name |-> name,
                                              category_id |-> cat_id, price_cents |-> price,
                                              is_available |-> 1]},
                        !.seq.products = nid]]

\* SELECT COALESCE(MAX(item_no), 0) FROM products
MaxItemNo(store) ==
    LET nos == UNION {p.item_no : p \in store.products} IN
    IF nos = {} THEN 0 ELSE SetMax(nos)

\* the largest number itself: a wrong NextItemNo, which C8 must tell apart
NextItemNoSame(store) == MaxItemNo(store)
\* the value the allocator tries next
NextItemNo(store) == MaxItemNo(store) + 1

\* for _ in 0..3 { ... } of POST /products
RECURSIVE AllocLoop(_, _, _, _, _)
AllocLoop(store, tries, name, cat_id, price) ==
    IF tries = 0 THEN [store |-> store, res |-> Err(ErrAllocate)]
    ELSE LET nx == NextItemNo(store) IN
         IF nx < 1 \/ nx > ItemNoMax THEN [store |-> store, res |-> Err(ErrOverflow)]
         ELSE LET r == InsertProduct(store, Some(nx), name, cat_id, price) IN
              IF r.ok THEN [store |-> r.store, res |-> Ok(<<>>)]
              ELSE IF IsUniqueItemNo(r.err)
                  THEN AllocLoop(store, tries - 1, name, cat_id, price)
                  ELSE [store |-> store, res |-> Err(r.err)]

\* any number taken as given: a wrong range test, which C12 must tell apart
InRangeAny(n) == TRUE
\* n >= 1 && n <= 9999
InRange(n) == n >= 1 /\ n <= ItemNoMax

\* the closure of POST /products
CreateProductWork(store, body) ==
    IF body = None THEN [store |-> store, res |-> Err("Missing body")]
    ELSE LET b == Get(body) IN
    IF b.name = None THEN [store |-> store, res |-> Err("name required")]
    ELSE IF b.price_cents = None THEN [store |-> store, res |-> Err("price_cents required")]
    ELSE LET name == Trim(Get(b.name))
             price == Get(b.price_cents)
             rc == ResolveCategory(store, b.category)
         IN  IF IsSome(b.item_no) /\ InRange(Get(b.item_no))
                 THEN LET r == InsertProduct(rc.store, b.item_no, name, rc.id, price) IN
                      IF r.ok THEN [store |-> r.store, res |-> Ok(<<>>)]
                      ELSE [store |-> rc.store,
                            res |-> Err(IF IsUniqueItemNo(r.err) THEN ErrItemNoInUse ELSE r.err)]
                 ELSE AllocLoop(rc.store, AllocTries, name, rc.id, price)

\* UPDATE products SET is_available = ?1 WHERE id = ?2
SetAvailabilityWork(store, id, avail) ==
    [store |-> [store EXCEPT !.products =
                    {IF p.id = id THEN [p EXCEPT !.is_available = avail] ELSE p : p \in @}],
     res |-> Ok(<<>>)]

\* the closure of PUT /products/{id}
UpdateProductWork(store, id, name, cat, price, item_no) ==
    LET rc == ResolveCategory(store, cat) IN
    IF /\ \E p \in rc.store.products : p.id = id
       /\ IsSome(item_no)
       /\ \E q \in rc.store.products : q.id # id /\ q.item_no = item_no
        THEN [store |-> rc.store, res |-> Err(ErrItemNoInUse)]
        ELSE [store |-> [rc.store EXCEPT !.products =
                            {IF p.id = id
                                 THEN [p EXCEPT !.item_no = item_no, !.name = name,
                                                !.category_id = rc.id, !.price_cents = price]
                                 ELSE p : p \in @}],
              res |-> Ok(<<>>)]

\* foreign keys not enforced: a wrong DeleteBlocked, which C9 must tell apart
DeleteBlockedNever(store, id) == FALSE
\* DELETE FROM products WHERE id = ?1 under bill_items.product_id REFERENCES products(id)
DeleteBlocked(store, id) ==
    /\ \E p \in store.products : p.id = id
    /\ \E it \in store.bill_items : it.product_id = id

\* the closure of DELETE /products/{id}
DeleteProductWork(store, id) ==
    IF DeleteBlocked(store, id)
        THEN IF IsConstraint(ErrForeignKey)
                 THEN [store |-> SetAvailabilityWork(store, id, 0).store,
                       res |-> Ok(<<"disabled">>)]
                 ELSE [store |-> store, res |-> Err(ErrForeignKey)]
        ELSE [store |-> [store EXCEPT !.products = {p \in @ : p.id # id}],
              res |-> Ok(<<>>)]

(***************************************************************************)
(* POST /bills.                                                             *)
(***************************************************************************)
\* qty kept as sent: a wrong filter_map, which C11 must tell apart
ValidItemUnclamped(raw) ==
    LET pid == OrElse(raw.product_id, 0)
        pn == Trim(OrElse(raw.product_name, <<>>))
        u == Max2(OrElse(raw.unit_price_cents, 0), 0)
        q == OrElse(raw.qty, 0)
    IN  IF pid > 0 /\ pn # <<>>
            THEN Some([pid |-> pid, pname |-> pn, unit |-> u, qty |-> q, lt |-> q * u])
            ELSE None
\* one element of items through the filter_map: None when it is dropped
ValidItem(raw) ==
    LET pid == OrElse(raw.product_id, 0)
        pn == Trim(OrElse(raw.product_name, <<>>))
        u == Max2(OrElse(raw.unit_price_cents, 0), 0)
        q == Min2(Max2(OrElse(raw.qty, 0), 1), QtyMax)
    IN  IF pid > 0 /\ pn # <<>>
            THEN Some([pid |-> pid, pname |-> pn, unit |-> u, qty |-> q, lt |-> q * u])
            ELSE None

RECURSIVE ValidItems(_)
ValidItems(raws) ==
    IF raws = <<>> THEN <<>>
    ELSE LET v == ValidItem(Head(raws)) IN
         (IF IsSome(v) THEN <<Get(v)>> ELSE <<>>) \o ValidItems(Tail(raws))

\* truncation: a wrong RoundDiv, which C10 must tell apart
RoundDivFloor(n, d) == n \div d
\* (n as f64 / d as f64).round(): to the nearest integer, halves away from zero.
\* Exact as long as n is below 2^53, which every value of this model is.
RoundDiv(n, d) ==
    IF n >= 0 THEN (2 * n + d) \div (2 * d) ELSE -((2 * (-n) + d) \div (2 * d))

\* the part of POST /bills that runs before with_db
BillsPre(body) ==
    LET raw == [route |-> "POST /bills", body |-> body] IN
    IF body = None THEN Refused(raw, "Missing body")
    ELSE LET b == Get(body) IN
    IF b.items = None THEN Refused(raw, "items required")
    ELSE IF Get(b.items) = <<>> THEN Refused(raw, "No items")
    ELSE LET items == ValidItems(Get(b.items)) IN
    IF items = <<>> THEN Refused(raw, "No valid items")
    ELSE LET subtotal == SumSeq([i \in 1..Len(items) |-> items[i].lt])
             dr == OrElse(b.discount_rate_bps, 0)
             dc == RoundDiv(subtotal * dr, BpsScale)
         IN  Passed([route |-> "POST /bills", items |-> items, subtotal |-> subtotal,
                     dr |-> dr, dc |-> dc, total |-> subtotal - dc])

\* bill_seq raised by two: a wrong UPDATE, which C15 must tell apart
BumpSeqTwice(store) ==
    IF "bill_seq" \in DOMAIN store.settings
        THEN SetSetting(store, "bill_seq", store.settings["bill_seq"] + 2)
        ELSE store
\* UPDATE settings SET value = CAST(value AS INTEGER) + 1 WHERE key = 'bill_seq'
BumpSeq(store) ==
    IF "bill_seq" \in DOMAIN store.settings
        THEN SetSetting(store, "bill_seq", store.settings["bill_seq"] + 1)
        ELSE store

\* INSERT INTO bills(...) under UNIQUE(bill_no)
InsertBill(store, bill_no, w) ==
    IF \E b \in store.bills : b.bill_no = bill_no
        THEN [ok |-> FALSE, err |-> ErrUniqueBillNo, store |-> store]
        ELSE LET nid == store.seq.bills + 1 IN
             [ok |-> TRUE, err |-> "",
              store |-> [store EXCEPT
                            !.bills = @ \cup {[id |-> nid, bill_no |-> bill_no,
                                               subtotal_cents |-> w.subtotal,
                                               discount_rate_bps |-> w.dr,
                                               discount_cents |-> w.dc,
                                               total_cents |-> w.total]},
                            !.seq.bills = nid]]

\* INSERT INTO bill_items(...) under the two foreign keys
InsertItem(store, bill_id, it) ==
    IF ~(\E b \in store.bills : b.id = bill_id) \/ ~(\E p \in store.products : p.id = it.pid)
        THEN [ok |-> FALSE, err |-> ErrForeignKey, store |-> store]
        ELSE LET nid == store.seq.bill_items + 1 IN
             [ok |-> TRUE, err |-> "",
              store |-> [store EXCEPT
                            !.bill_items = @ \cup {[id |-> nid, bill_id |-> bill_id,
                                                    product_id |-> it.pid,
                                                    product_name |-> it.pname,
                                                    unit_price_cents |-> it.unit,
                                                    qty |-> it.qty,
                                                    line_total_cents |-> it.lt]},
                            !.seq.bill_items = nid]]

\* for it in &items { tx.execute(...)? }
RECURSIVE InsertItems(_, _, _)
InsertItems(store, bill_id, items) ==
    IF items = <<>> THEN [ok |-> TRUE, err |-> "", store |-> store]
    ELSE LET r == InsertItem(store, bill_id, Head(items)) IN
         IF r.ok THEN InsertItems(r.store, bill_id, Tail(items)) ELSE r

\* the statements run so far kept: a wrong Rollback, which C2 must tell apart
RollbackKeep(before, reached) == reached
\* The Transaction is dropped without commit when a `?` returns early: its
\* drop behaviour is rollback, which gives back the store of before the begin.
Rollback(before, reached) == before

\* nothing taking effect: a wrong Commit, which C5 must tell apart
CommitForgotten(before, reached) == before
\* tx.commit(): the statements of the transaction take effect together
Commit(before, reached) == reached

\* the closure of POST /bills: one transaction
BillsWork(store, w) ==
    LET s1 == SeedSetting(store, "bill_seq", 0)
        s2 == BumpSeq(s1)
        seq == GetSetting(s2, "bill_seq", 1)
        bill_no == FormatBillNo(seq)
        rb == InsertBill(s2, bill_no, w)
    IN  IF ~rb.ok THEN [store |-> Rollback(store, rb.store), res |-> Err(rb.err)]
        ELSE LET ri == InsertItems(rb.store, rb.store.seq.bills, w.items) IN
             IF ~ri.ok THEN [store |-> Rollback(store, ri.store), res |-> Err(ri.err)]
             ELSE [store |-> Commit(store, ri.store), res |-> Ok(bill_no)]

(***************************************************************************)
(* Backup settings, files and the store file.                               *)
(***************************************************************************)
\* the closure of POST /backup/settings
BackupSettingsWork(store, body) ==
    IF body = None THEN [store |-> store, res |-> Err("Missing body")]
    ELSE LET b == Get(body) IN
         [store |-> SetSetting(SetSetting(store, "backup_path", OrElse(b.backup_path, BackupDir)),
                               "backup_interval_minutes",
                               OrElse(b.backup_interval_minutes, DefaultInterval)),
          res |-> Ok(<<>>)]

Absent == [content |-> [kind |-> "absent"], mtime |-> <<>>]
Exists(files, p) == p \in DOMAIN files /\ files[p].content.kind # "absent"

DigitVal(ch) == CHOOSE d \in 0..9 : DigitChar(d) = ch

\* a.cmp(&b) == Less for two String values of decimal digits
RECURSIVE StrLess(_, _)
StrLess(a, b) ==
    IF b = <<>> THEN FALSE
    ELSE IF a = <<>> THEN TRUE
    ELSE IF Head(a) = Head(b) THEN StrLess(Tail(a), Tail(b))
    ELSE DigitVal(Head(a)) < DigitVal(Head(b))

\* list_backups(dir).first(): the entries sorted by b.3.cmp(&a.3); the sort is
\* stable and read_dir gives no order, so any entry no other one precedes
FirstBackups(files, dir) ==
    LET inDir == {p \in DOMAIN files : Exists(files, p) /\ p[1] = dir} IN
    {p \in inDir : \A q \in inDir : ~StrLess(files[p].mtime, files[q].mtime)}

IsFile(files, p) == p = JunkPath \/ Exists(files, p)
IsDir(p) == Len(p) = 1 /\ p[1] \in Dirs

\* what fs::copy reads from a regular file
FileContent(files, p) == IF p = JunkPath THEN Garbage ELSE files[p].content

\* the connection's view of the store: the file with the log applied
Logical(file, log) == IF log.kind = "none" THEN file ELSE log

\* the log left out of the file: a wrong Checkpoint, which C4 must tell apart
CheckpointSkipped(file, log) == file
\* PRAGMA wal_checkpoint(TRUNCATE): the content of the store file afterwards
Checkpoint(file, log) == Logical(file, log)

(***************************************************************************)
(* State.                                                                   *)
(***************************************************************************)
NoReq == [route |-> "none"]
RestoreMark == <<"restore">>

\* the store as the attached connection sees it
Cur == Logical(dbfile, wal)

Init ==
    /\ db = "Some"
    /\ dbfile = FreshStore
    /\ wal = StartupStore
    /\ backups = [p \in BackupPaths |-> Absent]
    /\ lock = 0
    /\ pc = [c \in Callers |-> "idle"]
    /\ pending = [c \in Callers |-> NoReq]
    /\ last = [caller |-> 0, req |-> NoReq, res |-> Ok(<<>>), pre |-> TRUE, during |-> FALSE]
    /\ hist = <<>>
    /\ snap = [p \in BackupPaths |-> Absent.content]
    /\ during = [c \in Callers |-> FALSE]
    /\ temp = {}

Waiting(routes) == Cardinality({c \in Callers : pending[c].route \in routes})
ProductsEver == IF Cur.kind = "sqlite" THEN Cur.seq.products ELSE 0

\* api_call has read its arguments and goes on to the store
Issue(c, req) ==
    /\ pc' = [pc EXCEPT ![c] = "wait"]
    /\ pending' = [pending EXCEPT ![c] = req]
    /\ during' = [during EXCEPT ![c] = (lock # 0)]
    /\ UNCHANGED <<db, dbfile, wal, backups, lock, last, hist, snap, temp>>

\* api_call returns an error before it touches AppState
Reject(c, req, e) ==
    /\ last' = [caller |-> c, req |-> req, res |-> Err(e), pre |-> TRUE, during |-> (lock # 0)]
    /\ UNCHANGED <<db, dbfile, wal, backups, lock, pc, pending, hist, snap, during, temp>>

\* api_call returns res for the request req
Return(c, req, res) ==
    /\ pc' = [pc EXCEPT ![c] = "idle"]
    /\ pending' = [pending EXCEPT ![c] = NoReq]
    /\ last' = [caller |-> c, req |-> req, res |-> res, pre |-> FALSE, during |-> during[c]]
    /\ during' = [during EXCEPT ![c] = FALSE]

\* a committed write reaches the log, not the store file
Written(store) == IF store = Cur THEN wal ELSE store

\* the closure run whatever the guard holds: a wrong with_db, which C7 must tell apart
WithDbAlways(c, req, w) ==
    /\ wal' = Written(w.store)
    /\ Return(c, req, w.res)
    /\ UNCHANGED <<db, dbfile, backups, lock, snap, temp>>
\* fn with_db around a closure whose outcome on the attached store is w
WithDb(c, req, w) ==
    /\ IF db = "None"
           THEN wal' = wal /\ Return(c, req, Err(ErrUnavailable))
           ELSE wal' = Written(w.store) /\ Return(c, req, w.res)
    /\ UNCHANGED <<db, dbfile, backups, lock, snap, temp>>

(***************************************************************************)
(* How a handler is stepped.  With concurrent callers it takes two steps:   *)
(* Call (the code before state.db.lock()) and, once the Mutex is free, the  *)
(* part under the Mutex.  With one caller at a time the two are one step.   *)
(***************************************************************************)
Call(c, p) ==
    /\ pc[c] = "idle"
    /\ IF p.ok THEN Issue(c, p.req) ELSE Reject(c, p.req, p.err)

\* no waiting for the Mutex: a wrong lock(), which C6 must tell apart
LockedAnyway(c, route) == pc[c] = "wait" /\ pending[c].route = route
\* state.db.lock() succeeds
Locked(c, route) == pc[c] = "wait" /\ pending[c].route = route /\ lock = 0

Direct(c) == pc[c] = "idle" /\ lock = 0

(***************************************************************************)
(* The GET routes.                                                          *)
(***************************************************************************)
ReadRoutes ==
    {"GET /metrics", "GET /categories", "GET /products/search", "GET /products",
     "GET /bills", "GET /bills/{id}", "GET /backup/settings", "GET /backup/files"}

\* the closures of the GET routes: the rows they select (the search with an
\* empty q, the lines of the bill of id 1)
ReadWork(store, route) ==
    [store |-> store,
     res |-> Ok(CASE route = "GET /metrics" -> <<Cardinality(store.bills)>>
                  [] route = "GET /categories" -> <<store.categories>>
                  [] route = "GET /products/search" ->
                         <<{p \in store.products : p.is_available = 1}>>
                  [] route = "GET /products" -> <<store.products>>
                  [] route = "GET /bills" -> <<store.bills>>
                  [] route = "GET /bills/{id}" ->
                         <<{it \in store.bill_items : it.bill_id = 1}>>
                  [] route = "GET /backup/settings" ->
                         <<GetSetting(store, "backup_path", BackupDir),
                           GetSetting(store, "backup_interval_minutes", DefaultInterval)>>
                  [] OTHER -> <<GetSetting(store, "backup_path", BackupDir)>>)]

ReadLocked(c, r) ==
    /\ WithDb(c, r, ReadWork(Cur, r.route))
    /\ UNCHANGED hist

CallRead(c, routes) == \E r \in routes : Call(c, Passed([route |-> r]))
RunRead(c) == \E r \in ReadRoutes : Locked(c, r) /\ ReadLocked(c, pending[c])
DoRead(c, routes) == Direct(c) /\ \E r \in routes : ReadLocked(c, [route |-> r])

(***************************************************************************)
(* POST /products.                                                          *)
(***************************************************************************)
CreateProductPre(body) == Passed([route |-> "POST /products", body |-> body])

CreateProductLocked(c, r) ==
    /\ WithDb(c, r, CreateProductWork(Cur, r.body))
    /\ UNCHANGED hist

CallCreateProduct(c, bodies) ==
    /\ ProductsEver + Waiting({"POST /products"}) < MaxProducts
    /\ \E b \in bodies : Call(c, CreateProductPre(b))
RunCreateProduct(c) == Locked(c, "POST /products") /\ CreateProductLocked(c, pending[c])
DoCreateProduct(c, bodies, cap) ==
    /\ ProductsEver < cap
    /\ Direct(c)
    /\ \E b \in bodies : CreateProductLocked(c, CreateProductPre(b).req)

(***************************************************************************)
(* PUT /products/{id}/availability.  id is None when the path segment does  *)
(* not parse as i64.                                                        *)
(***************************************************************************)
SetAvailabilityPre(id, body) ==
    LET raw == [route |-> "PUT /products/{id}/availability", id |-> id, body |-> body] IN
    IF id = None THEN Refused(raw, "Invalid product id")
    ELSE IF body = None THEN Refused(raw, "Missing body")
    ELSE Passed([route |-> raw.route, id |-> Get(id),
                 avail |-> OrElse(Get(body).is_available, 1)])

SetAvailabilityLocked(c, r) ==
    /\ WithDb(c, r, SetAvailabilityWork(Cur, r.id, r.avail))
    /\ UNCHANGED hist

DoSetAvailability(c, ids, bodies) ==
    /\ Direct(c)
    /\ \E id \in ids, b \in bodies :
           LET p == SetAvailabilityPre(id, b) IN
           IF p.ok THEN SetAvailabilityLocked(c, p.req) ELSE Reject(c, p.req, p.err)

(***************************************************************************)
(* PUT /products/{id}.                                                      *)
(***************************************************************************)
UpdateProductPre(id, body) ==
    LET raw == [route |-> "PUT /products/{id}", id |-> id, body |-> body] IN
    IF id = None THEN Refused(raw, "Invalid id")
    ELSE IF body = None THEN Refused(raw, "Missing body")
    ELSE LET b == Get(body) IN
    IF b.name = None THEN Refused(raw, "name required")
    ELSE IF b.price_cents = None THEN Refused(raw, "price_cents required")
    ELSE Passed([route |-> raw.route, id |-> Get(id), name |-> Trim(Get(b.name)),
                 cat |-> b.category, price |-> Get(b.price_cents),
                 item_no |-> {n \in b.item_no : InRange(n)}])

UpdateProductLocked(c, r) ==
    /\ WithDb(c, r, UpdateProductWork(Cur, r.id, r.name, r.cat, r.price, r.item_no))
    /\ UNCHANGED hist

DoUpdateProduct(c, ids, bodies) ==
    /\ Direct(c)
    /\ \E id \in ids, b \in bodies :
           LET p == UpdateProductPre(id, b) IN
           IF p.ok THEN UpdateProductLocked(c, p.req) ELSE Reject(c, p.req, p.err)

(***************************************************************************)
(* DELETE /products/{id}.                                                   *)
(***************************************************************************)
DeleteProductPre(id) ==
    IF id = None THEN Refused([route |-> "DELETE /products/{id}", id |-> id], "Invalid id")
    ELSE Passed([route |-> "DELETE /products/{id}", id |-> Get(id)])

DeleteProductLocked(c, r) ==
    /\ WithDb(c, r, DeleteProductWork(Cur, r.id))
    /\ UNCHANGED hist

DoDeleteProduct(c, ids) ==
    /\ Direct(c)
    /\ \E id \in ids :
           LET p == DeleteProductPre(id) IN
           IF p.ok THEN DeleteProductLocked(c, p.req) ELSE Reject(c, p.req, p.err)

(***************************************************************************)
(* POST /bills.                                                             *)
(***************************************************************************)
BillsLocked(c, r) ==
    /\ WithDb(c, r, BillsWork(Cur, r))
    /\ hist' = IF last'.res.ok THEN Append(hist, last'.res.out) ELSE hist

CallBills(c, bodies) ==
    /\ Len(hist) + Waiting({"POST /bills", "POST /backup/restore"}) < MaxHist
    /\ \E b \in bodies : Call(c, BillsPre(b))
RunBills(c) == Locked(c, "POST /bills") /\ BillsLocked(c, pending[c])
DoBills(c, bodies, cap) ==
    /\ Len(hist) < cap
    /\ Direct(c)
    /\ \E b \in bodies :
           LET p == BillsPre(b) IN
           IF p.ok THEN BillsLocked(c, p.req) ELSE Reject(c, p.req, p.err)

(***************************************************************************)
(* POST /backup/settings and POST /backup/run.                              *)
(***************************************************************************)
BackupSettingsPre(body) == Passed([route |-> "POST /backup/settings", body |-> body])

BackupSettingsLocked(c, r) ==
    /\ WithDb(c, r, BackupSettingsWork(Cur, r.body))
    /\ UNCHANGED hist

DoBackupSettings(c, bodies) ==
    Direct(c) /\ \E b \in bodies : BackupSettingsLocked(c, BackupSettingsPre(b).req)

BackupPre(target) == Passed([route |-> "POST /backup/run", target |-> target])

\* with_db around do_backup.  The file name comes from the wall clock
\* (simple_ts), the modified time from the file system, and fs::copy may fail.
BackupLocked(c, r, times) ==
    /\ IF db = "None"
           THEN /\ Return(c, r, Err(ErrUnavailable))
                /\ UNCHANGED <<dbfile, wal, backups, snap>>
           ELSE LET dir == OrElse(r.target, GetSetting(Cur, "backup_path", BackupDir))
                    file == Checkpoint(dbfile, wal)
                IN  /\ dbfile' = file
                    /\ wal' = IF file = Cur THEN NoWal ELSE wal
                    /\ \E name \in BackupNames, t \in times, copied \in BOOLEAN :
                           IF copied
                               THEN /\ backups' = [backups EXCEPT ![<<dir, name>>] =
                                                       [content |-> file, mtime |-> t]]
                                    /\ snap' = [snap EXCEPT ![<<dir, name>>] = Cur]
                                    /\ Return(c, r, Ok(<<dir, name>>))
                               ELSE /\ UNCHANGED <<backups, snap>>
                                    /\ Return(c, r, Err("Backup copy"))
    /\ UNCHANGED <<db, lock, hist, temp>>

CallBackup(c, targets) == \E t \in targets : Call(c, BackupPre(t))
RunBackup(c, times) == Locked(c, "POST /backup/run") /\ BackupLocked(c, pending[c], times)
DoBackup(c, targets, times) ==
    Direct(c) /\ \E t \in targets : BackupLocked(c, BackupPre(t).req, times)

(***************************************************************************)
(* POST /backup/restore.  A path is the sequence of its components.         *)
(***************************************************************************)
JoinPath(dir, name) == dir \o <<name>>

SrcRaw(b) ==
    IF IsSome(b.source) THEN Get(b.source)
    ELSE IF IsSome(b.backup_path) /\ IsSome(b.file_name)
        THEN JoinPath(Get(b.backup_path), Get(b.file_name))
    ELSE IF IsSome(b.backup_path) THEN Get(b.backup_path)
    ELSE <<>>

\* the handler up to state.db.lock(): the ways it can come out on these files
RestorePre(files, body) ==
    LET raw == [route |-> "POST /backup/restore", body |-> body] IN
    IF body = None THEN {Refused(raw, "Missing body")}
    ELSE LET sp == SrcRaw(Get(body)) IN
    IF sp = <<>> THEN {Refused(raw, "No backup source")}
    ELSE IF IsFile(files, sp) THEN {Passed([route |-> raw.route, actual |-> sp])}
    ELSE IF IsDir(sp)
        THEN IF FirstBackups(files, sp[1]) = {}
                 THEN {Refused(raw, "No backup files in directory")}
                 ELSE {Passed([route |-> raw.route, actual |-> f]) :
                           f \in FirstBackups(files, sp[1])}
    ELSE {Refused(raw, "Backup not found")}

CallRestore(c, bodies, cap) ==
    /\ Len(hist) + Waiting({"POST /bills", "POST /backup/restore"}) < cap
    /\ \E b \in bodies : \E p \in RestorePre(backups, b) : Call(c, p)

\* state.db.lock(), guard.take(), checkpoint and close, removal of the -wal and
\* -shm files
RestoreDetach(c) ==
    /\ Locked(c, "POST /backup/restore")
    /\ lock' = c
    /\ db' = "None"
    /\ dbfile' = IF db = "Some" THEN Checkpoint(dbfile, wal) ELSE dbfile
    /\ wal' = NoWal
    /\ pc' = [pc EXCEPT ![c] = "copy"]
    /\ hist' = Append(hist, RestoreMark)
    /\ UNCHANGED <<backups, pending, last, snap, during, temp>>

\* fs::copy(&actual, &state.db_path)?: on an error the guard is dropped with
\* None inside, and the store file is as it was or holds part of the copy
RestoreCopy(c) ==
    /\ pc[c] = "copy" /\ lock = c
    /\ \/ /\ dbfile' = FileContent(backups, pending[c].actual)
          /\ pc' = [pc EXCEPT ![c] = "open"]
          /\ UNCHANGED <<lock, pending, last, during>>
       \/ /\ dbfile' \in {dbfile, Garbage}
          /\ lock' = 0
          /\ Return(c, pending[c], Err("Restore: copy failed"))
    /\ UNCHANGED <<db, wal, backups, hist, snap, temp>>

\* init_db(&state.db_path)?, *guard = Some(nc); on an error the guard is
\* dropped with the None that take() left
RestoreOpen(c) ==
    /\ pc[c] = "open" /\ lock = c
    /\ LET r == InitDb(dbfile) IN
       IF r.ok
           THEN /\ db' = "Some"
                /\ wal' = IF r.store = dbfile THEN NoWal ELSE r.store
                /\ Return(c, pending[c], Ok(pending[c].actual))
           ELSE /\ db' = "None"
                /\ wal' = wal
                /\ Return(c, pending[c], Err(r.err))
    /\ lock' = 0
    /\ UNCHANGED <<dbfile, backups, hist, snap, temp>>

(***************************************************************************)
(* Requests.                                                                *)
(***************************************************************************)
ProductBody(name, cat, price, no) ==
    Some([name |-> Some(name), category |-> cat, price_cents |-> Some(price), item_no |-> no])

RawItem(pid, pname, unit, qty) ==
    [product_id |-> Some(pid), product_name |-> Some(pname),
     unit_price_cents |-> Some(unit), qty |-> Some(qty)]

BillBody(items, dr) == Some([items |-> Some(items), discount_rate_bps |-> dr])

RestoreFrom(path) == Some([source |-> Some(path), backup_path |-> None, file_name |-> None])

Tea == <<"t", "e", "a">>
OneTime == {<<"9">>}

\* the requests of the engine as a whole
EngineProducts == {ProductBody(Tea, "", 40, None)}
EngineIds == {Some(1)}
EngineBills ==
    {BillBody(<<RawItem(1, Tea, 40, 25)>>, Some(250)),
     BillBody(<<>>, None)}
EngineSettings == {Some([backup_path |-> None, backup_interval_minutes |-> Some(60)])}
EngineRestores ==
    {RestoreFrom(p) : p \in BackupPaths \cup {JunkPath}}
    \cup {Some([source |-> None, backup_path |-> Some(<<BackupDir>>), file_name |-> None])}

\* the engine with one caller at a time, every route
NextEngine ==
    \/ DoRead(1, ReadRoutes)
    \/ DoCreateProduct(1, EngineProducts, MaxProducts)
    \/ DoSetAvailability(1, EngineIds, {Some([is_available |-> Some(0)])})
    \/ DoUpdateProduct(1, EngineIds, {ProductBody(Tea, "", 45, Some(7))})
    \/ DoDeleteProduct(1, EngineIds)
    \/ DoBills(1, EngineBills, EngineHist)
    \/ DoBackupSettings(1, EngineSettings)
    \/ DoBackup(1, {None}, OneTime)
    \/ CallRestore(1, EngineRestores, EngineHist)
    \/ RestoreDetach(1)
    \/ RestoreCopy(1)
    \/ RestoreOpen(1)

SpecEngine == Init /\ [][NextEngine]_vars

\* concurrent callers of the routes that number bills and swap the store
Next ==
    \/ \E c \in Callers : CallRead(c, {"GET /metrics"})
    \/ \E c \in Callers : RunRead(c)
    \/ \E c \in Callers : CallCreateProduct(c, EngineProducts)
    \/ \E c \in Callers : RunCreateProduct(c)
    \/ \E c \in Callers : CallBills(c, EngineBills)
    \/ \E c \in Callers : RunBills(c)
    \/ \E c \in Callers : CallBackup(c, {None})
    \/ \E c \in Callers : RunBackup(c, OneTime)
    \/ \E c \in Callers : CallRestore(c, EngineRestores, MaxHist)
    \/ \E c \in Callers : RestoreDetach(c)
    \/ \E c \in Callers : RestoreCopy(c)
    \/ \E c \in Callers : RestoreOpen(c)

Spec == Init /\ [][Next]_vars

\* the billing path with one caller: the bodies POST /bills tells apart
Bun == <<"b", "u", "n">>
BillRequests ==
    {BillBody(<<RawItem(1, Tea, 40, 25)>>, Some(250)),
     BillBody(<<RawItem(1, Tea, 40, 25)>>, Some(5)),
     BillBody(<<RawItem(1, Tea, 40, 25)>>, Some(-5)),
     BillBody(<<RawItem(1, Tea, 40, 25)>>, None),
     BillBody(<<RawItem(1, <<" ">>, 40, 1), RawItem(1, Tea, 40, 25)>>, Some(15)),
     BillBody(<<RawItem(1, Tea, 40, 25), RawItem(2, Bun, 7, 3)>>, Some(250)),
     BillBody(<<RawItem(0, Tea, 40, 1)>>, None),
     BillBody(<<>>, None)}

\* bodies at the edges of the filter_map: quantity and price out of range,
\* fields left out, every item dropped
EdgeRequests ==
    {BillBody(<<RawItem(1, Tea, 40, 5000)>>, None),
     BillBody(<<RawItem(1, Tea, -5, 0)>>, None),
     BillBody(<<[product_id |-> Some(1), product_name |-> Some(Tea),
                 unit_price_cents |-> None, qty |-> None]>>, None),
     BillBody(<<RawItem(-1, Tea, 40, 1), RawItem(1, <<" ", " ">>, 40, 1),
                [product_id |-> None, product_name |-> None,
                 unit_price_cents |-> Some(40), qty |-> Some(1)]>>, None)}

NextBills ==
    \/ DoCreateProduct(1, EngineProducts, MaxProducts)
    \/ DoBills(1, BillRequests \cup EdgeRequests, MaxHist)

SpecBills == Init /\ [][NextBills]_vars

\* the catalogue with one caller: item numbers given, left out and out of range
CatalogProducts ==
    {ProductBody(Tea, "", 40, no) : no \in {None, Some(0), Some(2), Some(ItemNoMax)}}
CatalogIds == {Some(1), Some(2)}

NextInventory ==
    \/ DoCreateProduct(1, CatalogProducts, MaxCatalog)
    \/ DoDeleteProduct(1, CatalogIds)
    \/ DoBills(1, {BillBody(<<RawItem(1, Tea, 40, 25)>>, None)}, EngineHist)

SpecInventory == Init /\ [][NextInventory]_vars

(***************************************************************************)
(* Properties of bill numbering and of the bill transaction.                *)
(***************************************************************************)
\* the number a text of decimal digits denotes
RECURSIVE DecimalValue(_)
DecimalValue(digits) ==
    IF digits = <<>> THEN 0
    ELSE 10 * DecimalValue(SubSeq(digits, 1, Len(digits) - 1)) + DigitVal(digits[Len(digits)])

IsBillNo(h) == h # RestoreMark
BillNoValue(h) == DecimalValue(SubSeq(h, 5, Len(h)))

\* C1: on a store that starts fresh and is never restored, the k-th successful
\* POST /bills returns "MNE-" followed by k as six zero-padded decimal digits,
\* and bill_seq counts the successful calls only: a call rejected with
\* "No items" or "No valid items", or rolled back, leaves it as it was.
C1_KthBillGetsNumberK ==
    (\A k \in DOMAIN hist : IsBillNo(hist[k])) =>
        /\ \A k \in DOMAIN hist :
               /\ Len(hist[k]) = 4 + BillNoWidth
               /\ SubSeq(hist[k], 1, 4) = <<"M", "N", "E", "-">>
               /\ BillNoValue(hist[k]) = k
        /\ Cur.settings["bill_seq"] = Len(hist)

\* two bills were numbered and the call after them was rejected for its items
C1_RejectedAfterTwoBills ==
    /\ Len(hist) = 2
    /\ \A k \in DOMAIN hist : IsBillNo(hist[k])
    /\ last.req.route = "POST /bills"
    /\ last.pre
    /\ last.res = Err("No valid items")

\* a POST /bills that got as far as the store and returned an error
BillFailedInStore(l) == l.req.route = "POST /bills" /\ ~l.pre /\ ~l.res.ok

\* C2: when a statement of the bill transaction fails after bill_seq was
\* incremented, the call returns an error and the store is exactly as before
\* the call: bill_seq, bills and bill_items (and everything else) unchanged.
C2_FailedBillLeavesStore ==
    [][(db = "Some" /\ BillFailedInStore(last')) => (dbfile' = dbfile /\ wal' = wal)]_vars

\* the second line of a bill hit the product foreign key after the bill row
\* and the first line had been inserted
C2_SecondLineFailed ==
    /\ BillFailedInStore(last)
    /\ last.res = Err(ErrForeignKey)
    /\ Len(last.req.items) = 2
    /\ \E p \in Cur.products : p.id = last.req.items[1].pid
    /\ Cur.settings["bill_seq"] = 1

\* the lines of a bill row
LinesOf(store, b) == {it \in store.bill_items : it.bill_id = b.id}

RECURSIVE SumLines(_)
SumLines(S) ==
    IF S = {} THEN 0
    ELSE LET it == CHOOSE x \in S : TRUE IN it.line_total_cents + SumLines(S \ {it})

Abs(n) == IF n < 0 THEN -n ELSE n

\* C10: in every bill, subtotal_cents is the sum of the line totals,
\* discount_cents is subtotal * rate / 10000 rounded to the nearest integer
\* with halves away from zero, and total_cents is subtotal - discount.
C10_BillArithmetic ==
    \A b \in Cur.bills :
        LET exact == b.subtotal_cents * b.discount_rate_bps
            off == Abs(BpsScale * b.discount_cents - exact)
        IN  /\ b.subtotal_cents = SumLines(LinesOf(Cur, b))
            /\ 2 * off <= BpsScale
            /\ 2 * off = BpsScale => BpsScale * Abs(b.discount_cents) > Abs(exact)
            /\ b.total_cents = b.subtotal_cents - b.discount_cents

\* a bill of subtotal 1000 at 250 bps (discount 25, total 975) next to one
\* whose exact discount is a half
C10_ExampleAndHalf ==
    /\ \E b \in Cur.bills :
           /\ b.subtotal_cents = 1000 /\ b.discount_rate_bps = 250
           /\ b.discount_cents = 25 /\ b.total_cents = 975
    /\ \E b \in Cur.bills :
           2 * Abs(BpsScale * b.discount_cents - b.subtotal_cents * b.discount_rate_bps)
               = BpsScale

(***************************************************************************)
(* Properties of the catalogue.                                             *)
(***************************************************************************)
ItemNosOf(store) == UNION {p.item_no : p \in store.products}
LargestItemNo(store) == IF ItemNosOf(store) = {} THEN 0 ELSE SetMax(ItemNosOf(store))

\* C8: where the largest item_no is m (0 when no product has one) and m + 1 is
\* still an item number, a POST /products without an in-range item_no succeeds
\* and inserts exactly one product, with item_no m + 1; a POST /products whose
\* item_no another product holds fails with "Item No already in use" and
\* inserts nothing.  So 1, 2, 3 on an empty store, a refused 2, and then 4.
C8_AutoAllocationIsMaxPlusOne ==
    [][(db = "Some" /\ last'.req.route = "POST /products") =>
        LET given == {n \in Get(last'.req.body).item_no : n >= 1 /\ n <= ItemNoMax}
            m == LargestItemNo(Cur)
        IN  /\ (given = {} /\ m < ItemNoMax) =>
                   /\ last'.res.ok
                   /\ Cur.products \subseteq Cur'.products
                   /\ \E p \in Cur'.products :
                          /\ Cur'.products \ Cur.products = {p}
                          /\ p.item_no = {m + 1}
            /\ (given \cap ItemNosOf(Cur) # {}) =>
                   /\ last'.res = Err(ErrItemNoInUse)
                   /\ Cur'.products = Cur.products]_vars

\* item numbers 1, 2, 3 are held by three products and a creation with the
\* explicit number 2 has just been refused
C8_ExplicitTwoRefused ==
    /\ last.req.route = "POST /products"
    /\ Get(last.req.body).item_no = {2}
    /\ last.res = Err(ErrItemNoInUse)
    /\ Cardinality(Cur.products) = 3
    /\ ItemNosOf(Cur) = {1, 2, 3}

\* C9: DELETE /products/{id} never fails because of history.  When a
\* bill_item references the product the call succeeds with disabled: true and
\* the row stays, with is_available = 0; when none does, the row is removed.
\* No other product row and no bill or bill_item row changes.
C9_DeleteIsSoftWhenReferenced ==
    [][(db = "Some" /\ last'.req.route = "DELETE /products/{id}" /\ ~last'.pre) =>
        LET id == last'.req.id
            referenced == \E it \in Cur.bill_items : it.product_id = id
        IN  /\ last'.res.ok
            /\ Cur'.bills = Cur.bills
            /\ Cur'.bill_items = Cur.bill_items
            /\ {p \in Cur'.products : p.id # id} = {p \in Cur.products : p.id # id}
            /\ referenced =>
                   /\ last'.res.out = <<"disabled">>
                   /\ {p \in Cur'.products : p.id = id} =
                          {[p EXCEPT !.is_available = 0] : p \in {q \in Cur.products : q.id = id}}
                   /\ \E p \in Cur'.products : p.id = id
            /\ ~referenced =>
                   /\ last'.res.out = <<>>
                   /\ ~(\E p \in Cur'.products : p.id = id)]_vars

\* a product that a bill_item references was deleted and is now disabled
C9_ReferencedProductDisabled ==
    /\ last.req.route = "DELETE /products/{id}"
    /\ last.res = Ok(<<"disabled">>)
    /\ \E it \in Cur.bill_items : it.product_id = last.req.id
    /\ \E p \in Cur.products : p.id = last.req.id /\ p.is_available = 0

(***************************************************************************)
(* Properties of restore, of the detached store and of the Mutex.           *)
(***************************************************************************)
\* the last call to return was a restore that had passed its source checks
RestoreReturned == last.req.route = "POST /backup/restore" /\ ~last.pre

\* C3: whenever a POST /backup/restore that passed source validation has
\* returned, with success or with an error of the copy or of the re-open, the
\* store is attached again.
C3_RestoreLeavesStoreAttached ==
    (lock = 0 /\ RestoreReturned) => db = "Some"

\* C4: after a successful restore from a backup file the store (products,
\* categories, bills, bill_items, settings with bill_seq) is exactly the store
\* of the moment that backup was taken, whatever product, bill and settings
\* operations ran in between.
C4_RestoreGivesBackStoreOfBackup ==
    (lock = 0 /\ RestoreReturned /\ last.res.ok) =>
        /\ db = "Some"
        /\ Cur = snap[last.res.out]

\* a bill made after the backup was numbered, and the restore took it away
C4_RestoredOverLaterBill ==
    /\ lock = 0 /\ RestoreReturned /\ last.res.ok
    /\ Len(hist) = 2 /\ IsBillNo(hist[1]) /\ hist[2] = RestoreMark
    /\ Cur.bills = {}
    /\ Cur.products # {}

\* C7: while the store is detached, a call of a store-touching route that gets
\* to with_db returns "Database not available" and runs no unit of work:
\* AppState, the store file, its log and the backup files stay as they are.
C7_DetachedCallsAreRefused ==
    [][(db = "None" /\ lock = 0 /\ last' # last /\ ~last'.pre
            /\ last'.req.route # "POST /backup/restore") =>
        /\ last'.res = Err(ErrUnavailable)
        /\ UNCHANGED <<db, dbfile, wal, backups, lock>>]_vars

\* a bill was asked for while the store was detached, and refused
C7_BillRefusedWhileDetached ==
    /\ db = "None" /\ lock = 0
    /\ last.req.route = "POST /bills" /\ ~last.pre
    /\ last.res = Err(ErrUnavailable)

\* concurrent callers around the swap of the store file alone, with the
\* scheduling the return of a waiting call rests on: the thread inside the
\* restore goes on to its next statement, and a caller blocked in
\* state.db.lock() gets the Mutex if it is free again and again
NextSwap ==
    \/ \E c \in Callers : CallRead(c, {"GET /metrics"})
    \/ \E c \in Callers : RunRead(c)
    \/ \E c \in Callers : CallBackup(c, {None})
    \/ \E c \in Callers : RunBackup(c, OneTime)
    \/ \E c \in Callers : CallRestore(c, EngineRestores, MaxHist)
    \/ \E c \in Callers : RestoreDetach(c)
    \/ \E c \in Callers : RestoreCopy(c)
    \/ \E c \in Callers : RestoreOpen(c)

SpecSwap ==
    /\ Init /\ [][NextSwap]_vars
    /\ \A c \in Callers :
           /\ WF_vars(RestoreCopy(c))
           /\ WF_vars(RestoreOpen(c))
           /\ SF_vars(RunRead(c) \/ RunBackup(c, OneTime) \/ RestoreDetach(c))

\* C5 as the specification states it: over any interleaving of POST /bills
\* with each other and with the other operations, the bill numbers returned are
\* strictly increasing in the order the calls held the Mutex.
C5_BillNumbersIncreaseAlways ==
    \A i, j \in DOMAIN hist :
        (i < j /\ IsBillNo(hist[i]) /\ IsBillNo(hist[j])) =>
            BillNoValue(hist[i]) < BillNoValue(hist[j])

\* C5, amended: the bill numbers returned are strictly increasing in the order
\* the calls held the Mutex as long as no restore came between them; a restore
\* puts bill_seq back to the value of the backup.
C5_BillNumbersIncreaseBetweenRestores ==
    \A i, j \in DOMAIN hist :
        (i < j /\ \A k \in i..j : IsBillNo(hist[k])) =>
            BillNoValue(hist[i]) < BillNoValue(hist[j])

\* two bills were numbered one after the other on a restored store
C5_TwoBillsAfterRestore ==
    /\ Len(hist) = 3
    /\ hist[1] = RestoreMark /\ IsBillNo(hist[2]) /\ IsBillNo(hist[3])
    /\ last.req.route = "POST /bills" /\ last.res = Ok(hist[3])

AllItemsDropped(l) ==
    /\ l.req.route = "POST /bills" /\ l.pre
    /\ l.req.body # None
    /\ Get(l.req.body).items \notin {None, Some(<<>>)}
    /\ LET raws == Get(Get(l.req.body).items) IN
       \A i \in 1..Len(raws) :
           \/ OrElse(raws[i].product_id, 0) <= 0
           \/ \A k \in 1..Len(OrElse(raws[i].product_name, <<>>)) :
                  IsSpace(OrElse(raws[i].product_name, <<>>)[k])

\* C11: in every state each bill has at least one bill_item, and every
\* bill_item has product_id > 0, a non-empty product_name, unit_price_cents
\* >= 0, qty in 1..1000 and line_total_cents = qty * unit_price_cents; a
\* POST /bills whose items are all dropped by the validation returns
\* 'No valid items' and leaves the store as it was.
C11_BillsHaveValidLines ==
    /\ [](\A b \in Cur.bills : \E it \in Cur.bill_items : it.bill_id = b.id)
    /\ [](\A it \in Cur.bill_items :
              /\ it.product_id > 0
              /\ it.product_name # <<>>
              /\ it.unit_price_cents >= 0
              /\ it.qty >= 1 /\ it.qty <= QtyMax
              /\ it.line_total_cents = it.qty * it.unit_price_cents)
    /\ [][AllItemsDropped(last') =>
              /\ last'.res = Err("No valid items")
              /\ dbfile' = dbfile /\ wal' = wal]_vars

\* a quantity of 5000 was billed as 1000, a price of -5 as 0 with quantity 1,
\* and a body of dropped items only has just been rejected
C11_ClampedLinesStoredThenAllDropped ==
    /\ \E it \in Cur.bill_items : it.qty = QtyMax /\ it.line_total_cents = 40 * QtyMax
    /\ \E it \in Cur.bill_items : it.qty = 1 /\ it.unit_price_cents = 0
    /\ AllItemsDropped(last)
    /\ Len(Get(Get(last.req.body).items)) = 3

(***************************************************************************)
(* The catalogue under every product route: item numbers and prices in and *)
(* out of range, on insert and on update.                                   *)
(***************************************************************************)
CatalogPrices == {ProductBody(Bun, "", -7, None)}
CatalogUpdates ==
    {ProductBody(Tea, "", 45, no) : no \in {None, Some(0), Some(2), Some(ItemNoMax + 1)}}
    \cup {ProductBody(Tea, "", -45, Some(3))}
CatalogFlags == {Some([is_available |-> Some(0)]), Some([is_available |-> None])}

NextCatalog ==
    \/ DoCreateProduct(1, CatalogProducts \cup CatalogPrices, MaxProducts)
    \/ DoUpdateProduct(1, CatalogIds, CatalogUpdates)
    \/ DoSetAvailability(1, CatalogIds, CatalogFlags)
    \/ DoDeleteProduct(1, CatalogIds)
    \/ DoBills(1, {BillBody(<<RawItem(1, Tea, 40, 25)>>, None)}, EngineHist)

SpecCatalog == Init /\ [][NextCatalog]_vars

\* C12: in every state reached by createProduct, updateProduct, deleteProduct
\* and setAvailability calls, the item_no values that are not NULL are
\* pairwise distinct and each lies in 1..9999.
C12_ItemNosDistinctInRange ==
    \A p \in Cur.products : \A n \in p.item_no :
        /\ n >= 1 /\ n <= ItemNoMax
        /\ \A q \in Cur.products : q.item_no = p.item_no => q.id = p.id

\* an update to a number another product holds has just been refused, while
\* an update with item_no 0 had set the other product's number to NULL
C12_UpdateToTakenNumberRefused ==
    /\ last.req.route = "PUT /products/{id}" /\ last.res = Err(ErrItemNoInUse)
    /\ \E p \in Cur.products : p.item_no = None /\ p.price_cents = 45
    /\ \E p \in Cur.products : p.item_no = Some(2)

\* C13 as the specification states it: in every state every product has
\* price_cents >= 0, whatever price_cents the body of a createProduct or
\* updateProduct call carries.
C13_PricesNeverNegative ==
    \A p \in Cur.products : p.price_cents >= 0

\* the rows of bills and of bill_items a store holds
BillsOf(store) == IF store.kind = "sqlite" THEN store.bills ELSE {}
ItemsOf(store) == IF store.kind = "sqlite" THEN store.bill_items ELSE {}

\* a step outside restore keeps every bill row and every bill_items row as it is
BillRowsKept ==
    (lock = 0 /\ lock' = 0) =>
        /\ BillsOf(Cur) \subseteq BillsOf(Cur')
        /\ ItemsOf(Cur) \subseteq ItemsOf(Cur')

\* the bill numbers returned from position i of the history on are in the store
BillsPresentFrom(i) ==
    \A k \in i..Len(hist) :
        IsBillNo(hist[k]) => \E b \in BillsOf(Cur) : b.bill_no = hist[k]

\* C14 as the specification states it: once POST /bills has committed a bill,
\* the bill row and its bill_items are present and unchanged in every later
\* state, whatever operations follow (product update, delete, backup, restore,
\* further bills).
C14_BillsStayWhateverFollows ==
    /\ [][BillRowsKept]_vars
    /\ []((db = "Some" /\ lock = 0) => BillsPresentFrom(1))

\* C14, amended: a committed bill row and its bill_items are present and
\* unchanged in every later state as long as no restore has run since; a
\* restore replaces the rows of the store by those of the backup.
C14_BillsStayUntilRestore ==
    /\ [][BillRowsKept]_vars
    /\ []((db = "Some" /\ lock = 0) =>
              \A i \in 1..(Len(hist) + 1) :
                  (\A k \in i..Len(hist) : hist[k] # RestoreMark) => BillsPresentFrom(i))

\* a bill of product 1 at 40 is in the store and in a backup, after the
\* product was repriced to 45, given item number 7 and disabled by a delete
C14_BillKeptOverProductChanges ==
    /\ Len(hist) = 1 /\ IsBillNo(hist[1])
    /\ \E p \in Cur.products : p.id = 1 /\ p.price_cents = 45 /\ p.is_available = 0
    /\ \E it \in Cur.bill_items : it.product_id = 1 /\ it.unit_price_cents = 40
    /\ \E f \in DOMAIN backups : BillsOf(backups[f].content) = Cur.bills
    /\ last.req.route = "DELETE /products/{id}" /\ last.res = Ok(<<"disabled">>)

\* SELECT value FROM settings WHERE key = 'bill_seq', where there is one
SeqOf(store) ==
    IF store.kind = "sqlite" /\ "bill_seq" \in DOMAIN store.settings
        THEN Some(store.settings["bill_seq"])
        ELSE None

\* over a step outside restore bill_seq stays, or grows by one in a POST /bills
\* that returns success
BillSeqStep ==
    (lock = 0 /\ lock' = 0) =>
        \/ SeqOf(Cur') = SeqOf(Cur)
        \/ /\ SeqOf(Cur) # None
           /\ SeqOf(Cur') = Some(Get(SeqOf(Cur)) + 1)
           /\ last' # last /\ last'.req.route = "POST /bills" /\ last'.res.ok

\* the successful POST /bills calls from position i of the history on
BillsSince(i) == Cardinality({k \in i..Len(hist) : IsBillNo(hist[k])})

\* C15 as the specification states it: bill_seq stays or grows by exactly 1 in
\* every step, grows only in a successful POST /bills, and no other operation
\* (schema open, settings write, backup, restore) changes it; so it is always
\* the number of successful POST /bills calls so far.
C15_BillSeqOnlyMovedByBills ==
    /\ [][BillSeqStep]_vars
    /\ []((db = "Some" /\ lock = 0) => SeqOf(Cur) = Some(BillsSince(1)))

\* C15, amended: outside restore bill_seq stays or grows by exactly 1, and it
\* grows only in a successful POST /bills; a successful restore sets it to the
\* value it had when the backup was taken.
C15_BillSeqMovedByBillsAndRestore ==
    /\ [][BillSeqStep]_vars
    /\ []((db = "Some" /\ lock = 0 /\ \A k \in 1..Len(hist) : hist[k] # RestoreMark) =>
              SeqOf(Cur) = Some(BillsSince(1)))
    /\ []((lock = 0 /\ RestoreReturned /\ last.res.ok) =>
              SeqOf(Cur) = SeqOf(snap[last.res.out]))

\* bill_seq was 1 after a bill and is 0 after a restore from the backup made
\* before that bill
C15_BillSeqPutBackByRestore ==
    /\ lock = 0 /\ RestoreReturned /\ last.res.ok
    /\ hist = <<FormatBillNo(1), RestoreMark>>
    /\ SeqOf(Cur) = Some(0)
    /\ SeqOf(snap[last.res.out]) = Some(0)

(***************************************************************************)
(* Receipt formatting.  Text is a sequence of one-character strings; the   *)
(* bytes CR, LF and the ESC/POS control bytes are the strings that name     *)
(* them.  Every character of the model is one byte long, so str::len and    *)
(* chars().count() agree, as the layout assumes.                            *)
(***************************************************************************)
ReceiptWidth == 48
NameWidth == 20
QtyWidth == 4
RateWidth == 9
AmountWidth == 12

RECURSIVE Repeat(_, _)
Repeat(ch, k) == IF k <= 0 THEN <<>> ELSE <<ch>> \o Repeat(ch, k - 1)

\* i32::to_string
IntText(n) == IF n < 0 THEN <<"-">> \o Decimal(-n) ELSE Decimal(n)

\* format!("{:.2}", (cents as f64) / 100.0): the quotient of an i32 by 100 is
\* printed with its two decimals exactly
CentsToRs(cents) ==
    LET a == IF cents < 0 THEN -cents ELSE cents
        frac == Decimal(a % 100)
    IN  (IF cents < 0 THEN <<"-">> ELSE <<>>)
            \o Decimal(a \div 100) \o <<".">> \o Zeros(2 - Len(frac)) \o frac

PadRight(value, width) ==
    IF Len(value) >= width THEN value ELSE value \o Repeat(" ", width - Len(value))

PadLeft(value, width) ==
    IF Len(value) >= width THEN value ELSE Repeat(" ", width - Len(value)) \o value

\* no take(width): a wrong fit_text, which C17 must tell apart
FitTextWhole(value, width) == Trim(value)
\* value.trim().chars().take(width).collect()
FitText(value, width) ==
    LET t == Trim(value) IN SubSeq(t, 1, Min2(width, Len(t)))

LineTwoCol(left, right, w) ==
    IF Len(right) >= w THEN FitText(right, w)
    ELSE LET lr == Max2(w - (Len(right) + 1), 0)
             lt == FitText(left, lr)
             sp == Max2(w - (Len(lt) + Len(right)), 0)
         IN  lt \o Repeat(" ", sp) \o right

Sep(w) == Repeat("-", w)

\* the Vec<String> l of format_receipt
ReceiptLines(payload) ==
    LET w == ReceiptWidth
        ItemLine(it) ==
            PadRight(FitText(it.name, NameWidth), NameWidth) \o <<" ">>
                \o PadLeft(IntText(it.qty), QtyWidth) \o <<" ">>
                \o PadLeft(CentsToRs(it.unit_price_cents), RateWidth) \o <<" ">>
                \o PadLeft(CentsToRs(it.line_total_cents), AmountWidth)
    IN  <<Sep(w),
          LineTwoCol(<<"B", "i", "l", "l", ":", " ">> \o payload.bill_no, payload.printed_at, w),
          Sep(w),
          PadRight(<<"I", "t", "e", "m">>, NameWidth) \o <<" ">> \o PadLeft(<<"Q", "t", "y">>, QtyWidth) \o <<" ">>
              \o PadLeft(<<"R", "a", "t", "e">>, RateWidth) \o <<" ">> \o PadLeft(<<"A", "m", "o", "u", "n", "t">>, AmountWidth),
          Sep(w)>>
        \o [i \in 1..Len(payload.items) |-> ItemLine(payload.items[i])]
        \o <<Sep(w),
             LineTwoCol(<<"S", "u", "b", "t", "o", "t", "a", "l">>, <<"R", "s", " ">> \o CentsToRs(payload.subtotal_cents), w),
             LineTwoCol(<<"D", "i", "s", "c", "o", "u", "n", "t", " ", "(">> \o CentsToRs(payload.discount_rate_bps) \o <<"%", ")">>,
                        <<"-", "R", "s", " ">> \o CentsToRs(payload.discount_cents), w),
             LineTwoCol(<<"T", "O", "T", "A", "L">>, <<"R", "s", " ">> \o CentsToRs(payload.total_cents), w),
             Sep(w)>>

CrLf == <<"CR", "LF">>

\* [String]::join
RECURSIVE Join(_, _)
Join(lines, by) ==
    IF lines = <<>> THEN <<>>
    ELSE IF Len(lines) = 1 THEN Head(lines)
    ELSE Head(lines) \o by \o Join(Tail(lines), by)

FormatReceipt(payload) == Join(ReceiptLines(payload), CrLf)

(***************************************************************************)
(* POST /print and do_print.                                                *)
(***************************************************************************)
\* the bytes of raw before the receipt
RawHead ==
    <<"ESC", "@", "ESC", "a", "x01", "GS", "!", "x11", "ESC", "E", "x01">>
        \o <<"M", "E", "E", "T", " ", "&", " ", "E", "A", "T">> \o CrLf
        \o <<"ESC", "E", "x00", "GS", "!", "x00", "ESC", "E", "x01">>
        \o <<"F", "r", "e", "s", "h", " ", "F", "o", "o", "d", " ", "|", " ", "F", "a", "s", "t", " ", "S", "e", "r", "v", "i", "c", "e">> \o CrLf
        \o <<"ESC", "E", "x00", "ESC", "a", "x00">>

\* the closing line, as the bytes of raw after the receipt begin
ThankYou == <<"ESC", "a", "x01">> \o <<"T", "h", "a", "n", "k", " ", "y", "o", "u", ".", " ", "V", "i", "s", "i", "t", " ", "a", "g", "a", "i", "n", "!">> \o CrLf

\* the bytes of raw after the receipt
RawTail ==
    ThankYou \o <<"ESC", "a", "x00">> \o CrLf \o CrLf \o CrLf \o <<"GS", "V", "A", "x03">>

RawBytes(payload) == RawHead \o FormatReceipt(payload) \o RawTail

\* the handler of POST /print down to the call of do_print
PrintPre(body) ==
    LET raw == [route |-> "POST /print", body |-> body] IN
    IF body = None THEN Refused(raw, "Missing body")
    ELSE LET b == Get(body) IN
    IF b.payload = None THEN Refused(raw, "Missing payload")
    ELSE IF Get(b.payload).items = None THEN Refused(raw, "Bad payload")
    ELSE Passed([route |-> "POST /print",
                 printer |-> OrElse(b.printerName, "Rugtek printer"),
                 payload |-> [Get(b.payload) EXCEPT !.items = Get(@)]])

\* do_print down to write(&tmp, raw)?: the file meateat_{ms}.txt holds raw, or
\* the write fails
PrintWrite(c, bodies, times) ==
    /\ pc[c] = "idle"
    /\ \E b \in bodies, ms \in times, written \in BOOLEAN :
           LET p == PrintPre(b) IN
           IF ~p.ok THEN Reject(c, p.req, p.err)
           ELSE IF ~written THEN Reject(c, p.req, "Write receipt")
           ELSE /\ temp' = {f \in temp : f.ms # ms}
                             \cup {[ms |-> ms, raw |-> RawBytes(p.req.payload)]}
                /\ pc' = [pc EXCEPT ![c] = "print"]
                /\ pending' = [pending EXCEPT ![c] =
                                  [route |-> p.req.route, printer |-> p.req.printer,
                                   payload |-> p.req.payload, ms |-> ms]]
                /\ UNCHANGED <<db, dbfile, wal, backups, lock, last, hist, snap, during>>

\* Command::new("powershell")...output() and what follows it: the helper is not
\* started (the ? returns), or it runs to its end, the file is removed and the
\* exit status decides the result
PrintRun(c) ==
    /\ pc[c] = "print"
    /\ \E started \in BOOLEAN, success \in BOOLEAN :
           IF ~started
               THEN /\ temp' = temp
                    /\ Return(c, pending[c], Err("Print failed"))
               ELSE /\ temp' = {f \in temp : f.ms # pending[c].ms}
                    /\ Return(c, pending[c], IF success THEN Ok(<<>>) ELSE Err("Print on"))
    /\ UNCHANGED <<db, dbfile, wal, backups, lock, hist, snap>>

\* the payloads of the print path: names, stamps and bill numbers shorter and
\* longer than their columns, amounts narrower and wider than theirs
Stamp == <<"2", "0", "2", "6", "-", "1", "1", "-", "0", "6", " ", "1", "0", ":", "3", "0">>
LongName == <<"c", "h", "i", "c", "k", "e", "n", " ", "b", "i", "r", "y", "a", "n", "i", " ", "f", "a", "m", "i", "l", "y", " ", "p", "a", "c", "k">>
SpacedName == <<" ", " ">> \o <<"p", "a", "n", "e", "e", "r", " ", "b", "u", "t", "t", "e", "r", " ", "m", "a", "s", "a", "l", "a", " ", "l", "a", "r", "g", "e">> \o <<" ">>
PrintItems ==
    {<<>>,
     <<[name |-> Tea, qty |-> 25, unit_price_cents |-> 4000, line_total_cents |-> 100000]>>,
     <<[name |-> LongName, qty |-> 2, unit_price_cents |-> 25050, line_total_cents |-> 50100],
       [name |-> SpacedName, qty |-> 1, unit_price_cents |-> 5, line_total_cents |-> 5]>>,
     <<[name |-> Repeat("n", NameWidth), qty |-> 12345, unit_price_cents |-> 123456789,
        line_total_cents |-> -99]>>}
PrintPayloads ==
    {[bill_no |-> FormatBillNo(1), printed_at |-> Stamp, subtotal_cents |-> 100000,
      discount_rate_bps |-> 250, discount_cents |-> 2500, total_cents |-> 97500,
      items |-> Some(its)] : its \in PrintItems}
    \cup {[bill_no |-> FormatBillNo(1), printed_at |-> at, subtotal_cents |-> 5,
           discount_rate_bps |-> 0, discount_cents |-> 0, total_cents |-> 5,
           items |-> Some(its)] :
              at \in {Repeat("x", ReceiptWidth - 1), Repeat("x", ReceiptWidth),
                      <<" ">> \o Repeat("x", ReceiptWidth + 2)},
              its \in {i \in PrintItems : Len(i) # 1}}
    \cup {[bill_no |-> FormatBillNo(1) \o Repeat("7", ReceiptWidth), printed_at |-> Stamp,
           subtotal_cents |-> -5, discount_rate_bps |-> 10000, discount_cents |-> -5,
           total_cents |-> 0, items |-> Some(<<>>)],
          [bill_no |-> FormatBillNo(1), printed_at |-> Stamp, subtotal_cents |-> 0,
           discount_rate_bps |-> 0, discount_cents |-> 0, total_cents |-> 0,
           items |-> None]}
PrintBodies ==
    {Some([printerName |-> None, payload |-> Some(p)]) : p \in PrintPayloads}
    \cup {None, Some([printerName |-> Some("POS-80"), payload |-> None])}
PrintTimes == {1, 2}

NextPrint ==
    \/ PrintWrite(1, PrintBodies, PrintTimes)
    \/ PrintRun(1)

SpecPrint == Init /\ [][NextPrint]_vars

\* the file meateat_{ms}.txt
TempFile(ms) == CHOOSE f \in temp : f.ms = ms

\* the receipt inside the bytes of a temporary file
ReceiptOf(raw) == SubSeq(raw, Len(RawHead) + 1, Len(raw) - Len(RawTail))

\* the lines of a text, split at each CR LF
RECURSIVE SplitLines(_)
SplitLines(text) ==
    LET ends == {i \in 1..(Len(text) - 1) : text[i] = "CR" /\ text[i + 1] = "LF"} IN
    IF ends = {} THEN <<text>>
    ELSE LET i == CHOOSE e \in ends : \A o \in ends : e <= o IN
         <<SubSeq(text, 1, i - 1)>> \o SplitLines(SubSeq(text, i + 2, Len(text)))

\* C16 as the specification states it: on every exit path of the print
\* operation after the temporary file was written (helper exits zero, exits
\* non-zero, cannot be started) the file has been removed by the time do_print
\* returns.
C16_TempFileRemovedOnEveryExit ==
    (last.req.route = "POST /print" /\ ~last.pre /\ pc[last.caller] = "idle") =>
        ~\E f \in temp : f.ms = last.req.ms

\* what line_two_col is to return for the value right
TwoColOk(line, right) ==
    IF Len(right) >= ReceiptWidth
        THEN line = SubSeq(Trim(right), 1, Min2(ReceiptWidth, Len(Trim(right))))
        ELSE /\ Len(line) = ReceiptWidth
             /\ SubSeq(line, ReceiptWidth - Len(right) + 1, ReceiptWidth) = right

\* C17: in the rendered receipt an item name longer than 20 characters
\* appears as exactly its first 20 characters after trimming, followed by the
\* column gap and no ellipsis; a two-column line whose right value is at least
\* as long as the width is that value alone, clipped to the width, and
\* otherwise is exactly as wide as the receipt and ends with the right value.
C17_LongNamesAndTwoColumnLines ==
    \A c \in Callers : pc[c] = "print" =>
        LET p == pending[c].payload
            lines == SplitLines(ReceiptOf(TempFile(pending[c].ms).raw))
            n == Len(p.items)
        IN  /\ Len(lines) = n + 10
            /\ \A i \in 1..n :
                   Len(Trim(p.items[i].name)) > NameWidth =>
                       SubSeq(lines[5 + i], 1, NameWidth + 1) =
                           SubSeq(Trim(p.items[i].name), 1, NameWidth) \o <<" ">>
            /\ TwoColOk(lines[2], p.printed_at)
            /\ TwoColOk(lines[n + 7], <<"R", "s", " ">> \o CentsToRs(p.subtotal_cents))
            /\ TwoColOk(lines[n + 8], <<"-", "R", "s", " ">> \o CentsToRs(p.discount_cents))
            /\ TwoColOk(lines[n + 9], <<"R", "s", " ">> \o CentsToRs(p.total_cents))

\* a receipt is being printed whose two names are longer than the name column,
\* one of them after trimming, and whose stamp is longer than the receipt is wide
C17_LongNamesAndLongStampPrinted ==
    /\ pc[1] = "print"
    /\ Len(pending[1].payload.items) = 2
    /\ pending[1].payload.items[1].name = LongName
    /\ pending[1].payload.items[2].name = SpacedName
    /\ Len(pending[1].payload.printed_at) > ReceiptWidth

\* C18 as the specification states it: every line of the formatted receipt,
\* the last one included, ends with CR LF, so that in the bytes sent to the
\* printer the closing line begins on a line of its own after the final
\* separator rule; and no LF stands without a CR before it.
C18_EveryLineEndsWithCrLf ==
    \A c \in Callers : pc[c] = "print" =>
        LET raw == TempFile(pending[c].ms).raw
            r == ReceiptOf(raw)
        IN  /\ SubSeq(r, Len(r) - 1, Len(r)) = CrLf
            /\ SubSeq(raw, Len(RawHead) + Len(r) + 1,
                      Len(RawHead) + Len(r) + Len(ThankYou)) = ThankYou
            /\ \A i \in 1..Len(raw) : raw[i] = "LF" => (i > 1 /\ raw[i - 1] = "CR")

(***************************************************************************)
(* Restore from a directory that may hold a backup of an earlier run.  The  *)
(* earlier file was last modified at second 9, the files written in this    *)
(* run at second 10.                                                        *)
(***************************************************************************)
OldBackup == <<BackupDir, <<"meet-eat", 0>>>>
LaterTime == {<<"1", "0">>}
DirRestores ==
    {None,
     Some([source |-> None, backup_path |-> None, file_name |-> None]),
     Some([source |-> Some(<<>>), backup_path |-> None, file_name |-> None]),
     Some([source |-> None, backup_path |-> Some(<<BackupDir>>), file_name |-> None]),
     Some([source |-> None, backup_path |-> Some(<<BackupDir>>),
           file_name |-> Some(<<"meet-eat", 7>>)])}

InitDir ==
    /\ db = "Some"
    /\ dbfile = FreshStore
    /\ wal = StartupStore
    /\ \E old \in {Absent, [content |-> StartupStore, mtime |-> <<"9">>]} :
           backups = [p \in BackupPaths \cup {OldBackup} |->
                          IF p = OldBackup THEN old ELSE Absent]
    /\ lock = 0
    /\ pc = [c \in Callers |-> "idle"]
    /\ pending = [c \in Callers |-> NoReq]
    /\ last = [caller |-> 0, req |-> NoReq, res |-> Ok(<<>>), pre |-> TRUE, during |-> FALSE]
    /\ hist = <<>>
    /\ snap = [p \in BackupPaths \cup {OldBackup} |-> backups[p].content]
    /\ during = [c \in Callers |-> FALSE]
    /\ temp = {}

NextDir ==
    \/ DoCreateProduct(1, EngineProducts, MaxProducts)
    \/ DoBills(1, EngineBills, EngineHist)
    \/ DoBackup(1, {None}, LaterTime)
    \/ CallRestore(1, DirRestores, EngineHist)
    \/ RestoreDetach(1)
    \/ RestoreCopy(1)
    \/ RestoreOpen(1)

SpecDir == InitDir /\ [][NextDir]_vars

\* the modified time of a backup file, in seconds
ModifiedAt(files, p) == DecimalValue(files[p].mtime)

\* C19 as the specification states it: when the restore source is a directory
\* the file restored is the backup of that directory with the greatest
\* modified time, for every set of backup files and modified times; when the
\* directory holds no backup, or the source is missing or empty, restore
\* returns an error and the store stays attached with its content unchanged.
C19_DirectoryRestoreTakesNewest ==
    /\ [](\A c \in Callers :
              (pc[c] = "wait" /\ pending[c].route = "POST /backup/restore") =>
                  \A q \in DOMAIN backups :
                      Exists(backups, q) =>
                          ModifiedAt(backups, q) <= ModifiedAt(backups, pending[c].actual))
    /\ [][(last' # last /\ last'.pre /\ last'.req.route = "POST /backup/restore") =>
              /\ ~last'.res.ok
              /\ UNCHANGED <<db, dbfile, wal, backups, lock>>]_vars

\* the contents a store file or a backup file holds in this state
StoresOnDisk == {dbfile, Cur} \cup {backups[p].content : p \in DOMAIN backups}

\* C20: init_db on a store that is already initialised succeeds and leaves
\* every row of every table as it is, the value of bill_seq included; and for
\* every store S, initialised or new, open(open(S)) = open(S).
C20_OpenIsIdempotent ==
    /\ [](\A S \in StoresOnDisk : S.kind = "sqlite" =>
              /\ InitDb(S).ok
              /\ InitDb(InitDb(S).store) = InitDb(S)
              /\ (SeqOf(S) # None => SeqOf(InitDb(S).store) = SeqOf(S))
              /\ (S # FreshStore => InitDb(S).store = S))
    /\ [][(last' # last /\ RestoreReturned' /\ last'.res.ok) =>
              (db' = "Some" /\ Cur' = dbfile)]_vars

\* init_db has just opened a restored store in which bill_seq is 1, and left
\* it at 1
C20_OpenedStoreWithBills ==
    /\ lock = 0 /\ RestoreReturned /\ last.res.ok
    /\ hist = <<FormatBillNo(1), RestoreMark>>
    /\ SeqOf(Cur) = Some(1)
    /\ Cur.bills # {}

\* the callers that are inside a restore, between guard.take() and the return
InRestore == {c \in Callers : pc[c] \in {"copy", "open"}}

\* C21 as the specification states it: at most one store operation (a with_db
\* unit of work or a restore) executes at any time, and each one has all its
\* writes committed or rolled back before the store lock is released, so that
\* no caller observes an open transaction or a restore that is half done.
C21_OneStoreOperationAtATime ==
    /\ [](/\ Cardinality(InRestore) <= 1
          /\ InRestore = IF lock = 0 THEN {} ELSE {lock})
    /\ [][(last' # last /\ ~last'.pre) => lock \in {0, last'.caller}]_vars
    /\ [](lock = 0 => (db = "Some" /\ Cur.kind = "sqlite"))

\* C22: when the largest item_no in the store is 9999, a POST /products
\* without an item_no of its own (none, or one outside 1..9999) fails with
\* 'Item No overflow' at the first attempt, not with the error that ends the
\* retries, and inserts no product, whether or not smaller numbers are free.
C22_OverflowFailsAtOnce ==
    [][(db = "Some" /\ last' # last /\ last'.req.route = "POST /products"
            /\ {n \in Get(last'.req.body).item_no : n >= 1 /\ n <= ItemNoMax} = {}
            /\ LargestItemNo(Cur) = ItemNoMax) =>
        /\ last'.res = Err(ErrOverflow)
        /\ Cur'.products = Cur.products]_vars

\* the only item number in use is 9999, every smaller one is free, and a
\* creation without item_no has just been refused
C22_OverflowWithSmallerNumbersFree ==
    /\ last.req.route = "POST /products"
    /\ Get(last.req.body).item_no = None
    /\ last.res = Err(ErrOverflow)
    /\ ItemNosOf(Cur) = {ItemNoMax}

\* C23 as the specification states it: every line of the text produced by
\* format_receipt is at most 48 characters wide for every payload, the
\* quantity, rate and amount of an item line being clipped to their columns
\* (4, 9 and 12 characters) whatever their magnitudes.
C23_NoLineWiderThanReceipt ==
    \A c \in Callers : pc[c] = "print" =>
        LET lines == SplitLines(ReceiptOf(TempFile(pending[c].ms).raw)) IN
        \A i \in 1..Len(lines) : Len(lines[i]) <= ReceiptWidth

\* C24: a PUT /products/{id} whose body carries no item_no, or one outside
\* 1..9999, succeeds and leaves the addressed product with item_no NULL; one
\* whose in-range item_no is held by another product fails with 'Item No
\* already in use' and leaves the addressed product's row as it was.
C24_UpdateUnsetsOrRefusesItemNo ==
    [][(db = "Some" /\ last'.req.route = "PUT /products/{id}" /\ ~last'.pre) =>
        \A id \in CatalogIds, body \in CatalogUpdates :
            UpdateProductPre(id, body).req = last'.req =>
                LET given == {n \in Get(body).item_no : n >= 1 /\ n <= ItemNoMax}
                    Row(store) == {p \in store.products : p.id = Get(id)}
                IN  /\ given = {} =>
                           /\ last'.res = Ok(<<>>)
                           /\ \A p \in Row(Cur') : p.item_no = None
                    /\ (/\ given # {}
                        /\ Row(Cur) # {}
                        /\ \E q \in Cur.products : q.id # Get(id) /\ q.item_no = given) =>
                           /\ last'.res = Err(ErrItemNoInUse)
                           /\ Row(Cur') = Row(Cur)]_vars

\* product 1 lost its number to an update that carried none in range, and an
\* update of product 1 to the number product 2 holds has just been refused
C24_UnsetThenRefused ==
    /\ last.req.route = "PUT /products/{id}" /\ ~last.pre
    /\ last.req.id = 1 /\ last.req.item_no = Some(2)
    /\ last.res = Err(ErrItemNoInUse)
    /\ \E p \in Cur.products : p.id = 1 /\ p.item_no = None /\ p.price_cents = 45
    /\ \E p \in Cur.products : p.id = 2 /\ p.item_no = Some(2)

\* C25: in every interleaving of concurrent callers a POST /products without
\* an item_no of its own never answers 'Failed to allocate Item No': the unit
\* of work reads the largest number and inserts the next one under the one
\* store lock, so the first insert goes through with max + 1 whenever that is
\* at most 9999, whatever the other callers did before or have waiting.
C25_AllocationNeverCollides ==
    /\ [](last.req.route = "POST /products" => last.res # Err(ErrAllocate))
    /\ [][\A c \in Callers :
             (/\ pc[c] = "wait" /\ pc'[c] = "idle"
              /\ pending[c].route = "POST /products"
              /\ db = "Some"
              /\ LargestItemNo(Cur) < ItemNoMax) =>
                 /\ last'.caller = c
                 /\ last'.res = Ok(<<>>)
                 /\ \E p \in Cur'.products \ Cur.products :
                        p.item_no = Some(LargestItemNo(Cur) + 1)]_vars

\* the creation of one caller has just been given number 1 while the creation
\* of the other caller is waiting for the lock
C25_SecondCreationWaiting ==
    /\ last.req.route = "POST /products" /\ last.res = Ok(<<>>) /\ last.caller = 2
    /\ pc[1] = "wait" /\ pending[1].route = "POST /products"
    /\ db = "Some" /\ ItemNosOf(Cur) = {1}

(***************************************************************************)
(* The catalogue with categories: products created and updated under a      *)
(* category name, which resolve_category_id inserts when it is new, next    *)
(* to deletions, bills, backups and restores.                               *)
(***************************************************************************)
CategoryProducts ==
    {ProductBody(Tea, "drinks", 40, Some(ItemNoMax)), ProductBody(Bun, "snacks", 30, None)}
CategoryUpdates == {ProductBody(Bun, "hot", 45, Some(ItemNoMax))}
CategoryBills == {BillBody(<<RawItem(p, Bun, 30, 1)>>, None) : p \in {1, 3}}
CategoryRestores == {RestoreFrom(<<BackupDir, n>>) : n \in BackupNames}

NextCategories ==
    \/ DoCreateProduct(1, CategoryProducts, MaxProducts)
    \/ DoUpdateProduct(1, EngineIds, CategoryUpdates)
    \/ DoDeleteProduct(1, EngineIds)
    \/ DoBills(1, CategoryBills, EngineHist)
    \/ DoBackup(1, {None}, OneTime)
    \/ CallRestore(1, CategoryRestores, EngineHist)
    \/ RestoreDetach(1)
    \/ RestoreCopy(1)
    \/ RestoreOpen(1)

SpecCategories == Init /\ [][NextCategories]_vars

\* C26 as the specification states it: a POST /products or PUT /products/{id}
\* call that returns an error leaves the whole store as it was, the
\* categories table included: no category row is created by a call that fails.
C26_FailedProductCallChangesNothing ==
    [][(/\ last' # last
        /\ last'.req.route \in {"POST /products", "PUT /products/{id}"}
        /\ ~last'.res.ok) => Cur' = Cur]_vars

\* C27: in every state of the store, those reached after backups and
\* restores included, the bill numbers in the bills table are exactly the
\* values 1..bill_seq formatted as MNE-%06d, one bill row for each: the
\* number of bills and the largest stored bill number both equal bill_seq.
C27_BillNumbersAreOneToBillSeq ==
    Cur.kind = "sqlite" =>
        /\ SeqOf(Cur) # None
        /\ {b.bill_no : b \in Cur.bills} = {FormatBillNo(k) : k \in 1..Get(SeqOf(Cur))}
        /\ Cardinality(Cur.bills) = Get(SeqOf(Cur))

\* two bills were issued and a restore has then brought back the store of the
\* backup taken between them, with bill 1 alone and bill_seq 1
C27_RestoredBetweenTwoBills ==
    /\ lock = 0 /\ RestoreReturned /\ last.res.ok
    /\ hist = <<FormatBillNo(1), FormatBillNo(2), RestoreMark>>
    /\ SeqOf(Cur) = Some(1)
    /\ {b.bill_no : b \in Cur.bills} = {FormatBillNo(1)}

\* C28: in every state of the store every bill_items row refers to a bill
\* row that exists and to a product row that exists, and every product's
\* category_id is NULL or the id of an existing category, after any sequence
\* of product, bill, backup and restore operations.
C28_ReferencesResolve ==
    Cur.kind = "sqlite" =>
        /\ \A it \in Cur.bill_items :
               /\ \E b \in Cur.bills : b.id = it.bill_id
               /\ \E p \in Cur.products : p.id = it.product_id
        /\ \A p \in Cur.products : \A cid \in p.category_id :
               \E c \in Cur.categories : c.id = cid

\* product 1 has a category and a bill line; after a backup and a restore its
\* deletion has just been turned into a soft delete
C28_BilledProductKeptAfterRestore ==
    /\ last.req.route = "DELETE /products/{id}" /\ last.res = Ok(<<"disabled">>)
    /\ hist = <<FormatBillNo(1), RestoreMark>>
    /\ \E p \in Cur.products : p.id = 1 /\ p.category_id # None /\ p.is_available = 0
    /\ \E it \in Cur.bill_items : it.product_id = 1

====
